---- MODULE Spec2Model ----
(***************************************************************************)
(* ThorVisionClient (pythorvision/client.py): the session bookkeeping of   *)
(* start_stream_with_recording, stop_stream, get_available_port and        *)
(* cleanup, with the control-plane (HTTP), the filesystem and the recorder *)
(* process as a nondeterministic environment.                              *)
(*                                                                         *)
(* Every public method is one action.  `last` records the call that made   *)
(* the step: its arguments, what it returned or raised, and the sequence   *)
(* of externally visible events it issued, in program order, and what the  *)
(* environment answered to it.  The caller takes the result (Return)       *)
(* before the next call is made.  The first call is the constructor.       *)
(***************************************************************************)
EXTENDS Integers, Sequences, FiniteSets, TLC

\* get_available_port(start=9001, end=9099); the range is cut to PoolSize ports.
PORT_START == 9001
PoolSize == 2
PORT_END == PORT_START + PoolSize - 1
Ports == PORT_START..PORT_END

\* The camera ids the callers use.
Cameras == {0, 2, 7}

Capabilities == {"image/jpeg", "video/x-raw"}
LogOptions == {"none", "file", "console", "invalid"}
HttpOutcomes == {"ok", "HTTPError", "ConnectionError"}

VARIABLES
    active_streams,       \* dict {port: camera_id}
    camera_to_port,       \* dict {camera_id: port}
    gstreamer_processes,  \* dict {camera_id: process}; a process is "running" or "exited"
    gstreamer_log_files,  \* dict {camera_id: log file handle}
    output_paths,         \* dict {camera_id: output path}
    cleanup_done,         \* self._cleanup_done
    os_name,              \* os.name of the host, fixed
    orphans,              \* TRUE while some recorder process that no dict holds any more is running
    last,                 \* the call that made the last step, until its caller has seen it
    session,              \* history: camera_id -> the Session its last successful start
                          \* returned and the events of that call, until a stop of the camera
    stop_threads,         \* thread -> where it is in a stop_stream that runs concurrently
                          \* with another one, and its local variables
    trace,                \* the events the concurrent stop_stream calls issued, in order
    video,                \* the file at the video_path given to extract_metadata
    decoded,              \* what extract_metadata returned for it, once it has been called
    start_frame,          \* where a start_stream_with_recording that a signal handler may
                          \* interrupt is, and its local variables
    remote_balance        \* history: camera_id -> the POST /jpeg that succeeded for it
                          \* minus the POST /stop issued for it, over all calls so far

vars == <<active_streams, camera_to_port, gstreamer_processes, gstreamer_log_files,
          output_paths, cleanup_done, os_name, orphans, last, session, stop_threads, trace,
          video, decoded, start_frame, remote_balance>>

----------------------------------------------------------------------------
\* Python dicts: functions on their keys.

EmptyDict == [k \in {} |-> k]

DictPut(d, k, v) == [x \in (DOMAIN d) \cup {k} |-> IF x = k THEN v ELSE d[x]]

DictPop(d, k) == [x \in (DOMAIN d) \ {k} |-> d[x]]

Keys(d) == DOMAIN d

----------------------------------------------------------------------------
\* The object's fields (and the process table) as one value, threaded through a call.

\* What the environment answered to a start or a stop: GET /cameras, POST /jpeg, the
\* spawn of the recorder ("raised", "exited" at the probe, "alive") and POST /stop; and
\* the port get_available_port returned, if it returned one.
NoAnswers ==
    [get |-> "none", post |-> "none", spawn |-> "none", stop |-> "none", port |-> <<>>]

State ==
    [active_streams |-> active_streams, camera_to_port |-> camera_to_port,
     gstreamer_processes |-> gstreamer_processes,
     gstreamer_log_files |-> gstreamer_log_files, output_paths |-> output_paths,
     cleanup_done |-> cleanup_done, orphans |-> orphans, events |-> <<>>,
     answers |-> NoAnswers]

Ev(S, name, camera_id) == [S EXCEPT !.events = Append(@, <<name, camera_id>>)]

Count(events, name) == Cardinality({i \in DOMAIN events : events[i][1] = name})

CountFor(events, name, camera_id) ==
    Cardinality({i \in DOMAIN events : events[i] = <<name, camera_id>>})

Raise(exc) == [kind |-> "raise", exc |-> exc]

NoSession == [kind |-> "none"]

\* No file has been given to extract_metadata, and it has not been called.
NoVideo == [open |-> "none", has_video |-> FALSE, packets |-> <<>>, demux_error_after |-> <<>>]

NotCalled == [kind |-> "not_called"]

\* No start_stream_with_recording is followed statement by statement.
NoFrame == [pc |-> "none"]

----------------------------------------------------------------------------
\* What the environment answers during one stop_stream: taskkill's exit status,
\* whether the process exits within wait(timeout=5), whether the killed process is
\* reaped within wait(timeout=2), and how POST /stop ends.

StopEnvs ==
    [taskkill : {"ok", "fail"}, grace : {"exit", "timeout"},
     kill : {"reaped", "timeout"}, http : HttpOutcomes]

DefaultEnv == [taskkill |-> "ok", grace |-> "exit", kill |-> "reaped", http |-> "ok"]

\* The answers stop_stream(camera_id) can observe in state S, one value per observable outcome.
StopEnvsFor(S, camera_id) ==
    {e \in StopEnvs :
        /\ IF /\ camera_id \in DOMAIN S.gstreamer_processes
              /\ S.gstreamer_processes[camera_id] = "running"
           THEN /\ (os_name # "nt" => e.taskkill = "ok")
                /\ (os_name = "nt" /\ e.taskkill = "ok" => e.grace = "exit")
                /\ (e.grace = "exit" => e.kill = "reaped")
           ELSE /\ e.taskkill = "ok"
                /\ e.grace = "exit"
                /\ e.kill = "reaped"
        /\ (camera_id \notin Keys(S.camera_to_port) => e.http = "ok")}

\* client.py 306-347: the try block that stops the popped process.  A process that
\* outlives it (wait(timeout=2) raised TimeoutExpired, caught at 346) is an orphan.
terminate_process(S, camera_id, process, e) ==
    LET S1 == Ev(S, "poll", camera_id) IN
    IF process = "running"
    THEN LET S2 == IF os_name = "nt"
                   THEN IF e.taskkill = "ok"
                        THEN Ev(S1, "taskkill", camera_id)
                        ELSE Ev(Ev(Ev(S1, "taskkill", camera_id), "poll", camera_id),
                                "kill", camera_id)
                   ELSE Ev(S1, "SIGINT", camera_id)
             S3 == Ev(S2, "wait5", camera_id)
         IN  IF e.grace = "exit"
             THEN Ev(S3, "communicate", camera_id)
             ELSE LET S4 == Ev(Ev(S3, "kill", camera_id), "wait2", camera_id) IN
                  IF e.kill = "reaped"
                  THEN Ev(S4, "communicate", camera_id)
                  ELSE Ev([S4 EXCEPT !.orphans = TRUE], "TimeoutExpired", camera_id)
    ELSE Ev(S1, "communicate", camera_id)

\* client.py 374-392: only requests.exceptions.HTTPError is caught.
stop_response(http, camera_id, output_path) ==
    CASE http = "ok" ->
            [kind |-> "stopped", camera_id |-> camera_id, output_path |-> output_path]
      [] http = "HTTPError" ->
            [kind |-> "stopped_server_error", camera_id |-> camera_id,
             output_path |-> output_path, error |-> "HTTPError"]
      [] OTHER -> Raise(http)

\* client.py 356-357: is the camera tracked as streaming.
is_tracked(S, camera_id) == camera_id \in Keys(S.camera_to_port)

\* A stop_stream without the early return of 356-363: it tells the server even when
\* the camera is not tracked.
stop_stream_unguarded(S, camera_id, e) ==
    LET output_path == IF camera_id \in DOMAIN S.output_paths
                       THEN S.output_paths[camera_id] ELSE <<>>
        S1 == [S EXCEPT !.gstreamer_processes = DictPop(@, camera_id),
                        !.output_paths = DictPop(@, camera_id),
                        !.gstreamer_log_files = DictPop(@, camera_id)]
        S2 == IF camera_id \in DOMAIN S.gstreamer_processes
              THEN terminate_process(S1, camera_id, S.gstreamer_processes[camera_id], e)
              ELSE S1
        S3 == [S2 EXCEPT !.camera_to_port = DictPop(@, camera_id),
                         !.active_streams =
                             [p \in {q \in DOMAIN @ : @[q] # camera_id} |-> @[p]]]
    IN  [S |-> Ev(S3, "POST /stop", camera_id),
         ret |-> stop_response(e.http, camera_id, output_path)]

\* A stop_stream that closes the log after the termination instead of in a finally
\* clause: the TimeoutExpired of the wait after the kill skips the close.
stop_stream_closing_after(S, camera_id, e) ==
    LET hasProc == camera_id \in DOMAIN S.gstreamer_processes
        hasLog == camera_id \in DOMAIN S.gstreamer_log_files
        output_path == IF camera_id \in DOMAIN S.output_paths
                       THEN S.output_paths[camera_id] ELSE <<>>
        S1 == [S EXCEPT !.gstreamer_processes = DictPop(@, camera_id),
                        !.output_paths = DictPop(@, camera_id),
                        !.gstreamer_log_files = DictPop(@, camera_id)]
        S2 == IF hasProc
              THEN terminate_process(S1, camera_id, S.gstreamer_processes[camera_id], e)
              ELSE S1
        S3 == IF hasLog /\ CountFor(S2.events, "TimeoutExpired", camera_id) = 0
              THEN Ev(S2, "close_log", camera_id) ELSE S2
    IN  IF ~is_tracked(S3, camera_id)
        THEN [S |-> S3,
              ret |-> [kind |-> "no_active_stream", camera_id |-> camera_id,
                       output_path |-> output_path]]
        ELSE LET port == S3.camera_to_port[camera_id]
                 S4 == [S3 EXCEPT !.camera_to_port = DictPop(@, camera_id),
                                  !.active_streams = DictPop(@, port)]
             IN  [S |-> Ev(S4, "POST /stop", camera_id),
                  ret |-> stop_response(e.http, camera_id, output_path)]

\* A stop_stream that tells the server before it has stopped the recorder.
stop_stream_posting_first(S, camera_id, e) ==
    LET hasProc == camera_id \in DOMAIN S.gstreamer_processes
        hasLog == camera_id \in DOMAIN S.gstreamer_log_files
        output_path == IF camera_id \in DOMAIN S.output_paths
                       THEN S.output_paths[camera_id] ELSE <<>>
        S0 == [S EXCEPT !.gstreamer_processes = DictPop(@, camera_id),
                        !.output_paths = DictPop(@, camera_id),
                        !.gstreamer_log_files = DictPop(@, camera_id)]
        S1 == IF is_tracked(S0, camera_id) THEN Ev(S0, "POST /stop", camera_id) ELSE S0
        S2 == IF hasProc
              THEN terminate_process(S1, camera_id, S.gstreamer_processes[camera_id], e)
              ELSE S1
        S3 == IF hasLog THEN Ev(S2, "close_log", camera_id) ELSE S2
    IN  IF ~is_tracked(S3, camera_id)
        THEN [S |-> S3,
              ret |-> [kind |-> "no_active_stream", camera_id |-> camera_id,
                       output_path |-> output_path]]
        ELSE LET port == S3.camera_to_port[camera_id] IN
             [S |-> [S3 EXCEPT !.camera_to_port = DictPop(@, camera_id),
                               !.active_streams = DictPop(@, port)],
              ret |-> stop_response(e.http, camera_id, output_path)]

\* A stop_stream that leaves the output path of the camera in output_paths.
stop_stream_keeping_path(S, camera_id, e) ==
    LET hasProc == camera_id \in DOMAIN S.gstreamer_processes
        hasLog == camera_id \in DOMAIN S.gstreamer_log_files
        output_path == IF camera_id \in DOMAIN S.output_paths
                       THEN S.output_paths[camera_id] ELSE <<>>
        S1 == [S EXCEPT !.gstreamer_processes = DictPop(@, camera_id),
                        !.gstreamer_log_files = DictPop(@, camera_id)]
        S2 == IF hasProc
              THEN terminate_process(S1, camera_id, S.gstreamer_processes[camera_id], e)
              ELSE S1
        S3 == IF hasLog THEN Ev(S2, "close_log", camera_id) ELSE S2
    IN  IF ~is_tracked(S3, camera_id)
        THEN [S |-> S3,
              ret |-> [kind |-> "no_active_stream", camera_id |-> camera_id,
                       output_path |-> output_path]]
        ELSE LET port == S3.camera_to_port[camera_id]
                 S4 == [S3 EXCEPT !.camera_to_port = DictPop(@, camera_id),
                                  !.active_streams = DictPop(@, port)]
             IN  [S |-> Ev(S4, "POST /stop", camera_id),
                  ret |-> stop_response(e.http, camera_id, output_path)]

\* client.py 291-392.  The result is the state after the call and what it returned or raised.
stop_stream(S, camera_id, e) ==
    LET hasProc == camera_id \in DOMAIN S.gstreamer_processes
        hasLog == camera_id \in DOMAIN S.gstreamer_log_files
        output_path == IF camera_id \in DOMAIN S.output_paths
                       THEN S.output_paths[camera_id] ELSE <<>>
        S1 == [S EXCEPT !.gstreamer_processes = DictPop(@, camera_id),
                        !.output_paths = DictPop(@, camera_id),
                        !.gstreamer_log_files = DictPop(@, camera_id)]
        S2 == IF hasProc
              THEN terminate_process(S1, camera_id, S.gstreamer_processes[camera_id], e)
              ELSE S1
        S3 == IF hasLog THEN Ev(S2, "close_log", camera_id) ELSE S2
    IN  IF ~is_tracked(S3, camera_id)
        THEN [S |-> S3,
              ret |-> [kind |-> "no_active_stream", camera_id |-> camera_id,
                       output_path |-> output_path]]
        ELSE LET port == S3.camera_to_port[camera_id]
                 S4 == [S3 EXCEPT !.camera_to_port = DictPop(@, camera_id),
                                  !.active_streams = DictPop(@, port)]
             IN  [S |-> Ev(S4, "POST /stop", camera_id),
                  ret |-> stop_response(e.http, camera_id, output_path)]

\* A get_available_port that does not look at the ports in use.
get_available_port_ignoring_streams(streams) == [exc |-> "", port |-> PORT_START]

\* A get_available_port that scans the range from its end.
get_available_port_from_end(streams) ==
    IF \E port \in Ports : port \notin DOMAIN streams
    THEN [exc |-> "",
          port |-> CHOOSE port \in Ports :
                      /\ port \notin DOMAIN streams
                      /\ \A q \in Ports : q > port => q \in DOMAIN streams]
    ELSE [exc |-> "RuntimeError"]

\* client.py 394-412: the lowest port of the range that is not a key of active_streams.
get_available_port(streams) ==
    IF \E port \in Ports : port \notin DOMAIN streams
    THEN [exc |-> "",
          port |-> CHOOSE port \in Ports :
                      /\ port \notin DOMAIN streams
                      /\ \A q \in Ports : q < port => q \in DOMAIN streams]
    ELSE [exc |-> "RuntimeError"]

----------------------------------------------------------------------------
\* One step of the object: the fields after the call, and the record of the call.
\* `stopped` are the cameras stop_stream was called on during the call.

StartCall(camera_id, capability) ==
    [op |-> "start", camera_id |-> camera_id, capability |-> capability]

StopCall(camera_id) == [op |-> "stop", camera_id |-> camera_id]

Idle ==
    [call |-> [op |-> "idle"], ret |-> [kind |-> "none"], events |-> <<>>,
     answers |-> NoAnswers, retry |-> FALSE]

\* client.py 192-193 and 375: the requests of a call, added to the history.  A POST /jpeg
\* has succeeded when raise_for_status let it pass; a POST /stop counts once it is sent.
RemoteBalance(S) ==
    [c \in Cameras |->
        remote_balance[c]
        + (IF S.answers.post = "ok" THEN CountFor(S.events, "POST /jpeg", c) ELSE 0)
        - CountFor(S.events, "POST /stop", c)]

Commit(S, call, ret, stopped) ==
    /\ active_streams' = S.active_streams
    /\ camera_to_port' = S.camera_to_port
    /\ gstreamer_processes' = S.gstreamer_processes
    /\ gstreamer_log_files' = S.gstreamer_log_files
    /\ output_paths' = S.output_paths
    /\ cleanup_done' = S.cleanup_done
    /\ orphans' = S.orphans
    /\ os_name' = os_name
    /\ last' = [call |-> call, ret |-> ret, events |-> S.events, answers |-> S.answers,
                retry |-> call.op = "start" /\ last.call.op = "start"]
    /\ session' = [c \in Cameras |->
                     IF call.op = "start" /\ ret.kind = "session" /\ c = call.camera_id
                     THEN [kind |-> "session", camera_id |-> ret.camera_id,
                           port |-> ret.port, output_path |-> ret.output_path,
                           events |-> S.events]
                     ELSE IF c \in stopped THEN NoSession ELSE session[c]]
    /\ remote_balance' = RemoteBalance(S)
    /\ UNCHANGED <<stop_threads, trace, video, decoded>>

\* client.py 163: "image/jpeg" not in capability.
IsJpeg(capability) == capability = "image/jpeg"

\* client.py 206-209: <output_dir>/<camera_id>_<camera_name>_<timestamp>-%02d.mkv
OutputPath(camera_id) == <<camera_id>>

\* A start_remote that tracks the stream before it has looked at the response.
start_remote_tracking_first(S, camera_id, port, post) ==
    [Ev(S, "POST /jpeg", camera_id) EXCEPT !.active_streams = DictPut(@, port, camera_id),
                                           !.camera_to_port = DictPut(@, camera_id, port)]

\* A start_remote that marks the port as in use and forgets the camera's entry.
start_remote_port_only(S, camera_id, port, post) ==
    LET S1 == Ev(S, "POST /jpeg", camera_id) IN
    IF post = "ok"
    THEN [S1 EXCEPT !.active_streams = DictPut(@, port, camera_id)]
    ELSE S1

\* client.py 185-197: POST /jpeg, raise_for_status, and only then the two tracking dicts.
start_remote(S, camera_id, port, post) ==
    LET S1 == Ev(S, "POST /jpeg", camera_id) IN
    IF post = "ok"
    THEN [S1 EXCEPT !.active_streams = DictPut(@, port, camera_id),
                    !.camera_to_port = DictPut(@, camera_id, port)]
    ELSE S1

\* client.py 278-284: the dict a successful start returns.
session_result(camera_id, port, capability, output_path) ==
    [kind |-> "session", camera_id |-> camera_id, port |-> port,
     capability |-> capability, recording |-> TRUE, output_path |-> output_path]

\* client.py 167-170: the dict a start on a tracked camera returns.
already_streaming_result(S, camera_id) ==
    [kind |-> "already_streaming", camera_id |-> camera_id,
     port |-> S.camera_to_port[camera_id]]

\* client.py 242-289: Popen, the one second of grace, the poll, and both failure paths.
launch(S, args, port, gstreamer_log) ==
    LET camera_id == args.camera_id IN
    \E popen \in {"ok", "OSError"} :
        LET S1 == Ev(S, "Popen", camera_id) IN
        IF popen # "ok"
        THEN \* 286-289: the except block; what its stop_stream raises leaves the method
             \E e \in StopEnvsFor(S1, camera_id) :
                 LET r == stop_stream([S1 EXCEPT !.answers.spawn = "raised",
                                                 !.answers.stop = e.http],
                                      camera_id, e)
                 IN
                 Commit(r.S, args,
                        IF r.ret.kind = "raise" THEN r.ret
                        ELSE [kind |-> "error", error |-> "Failed to start GStreamer: OSError"],
                        {camera_id})
        ELSE \E alive \in BOOLEAN :
                 LET S2 == Ev([S1 EXCEPT !.gstreamer_processes =
                                   DictPut(@, camera_id, IF alive THEN "running" ELSE "exited"),
                                         !.answers.spawn = IF alive THEN "alive" ELSE "exited"],
                              "poll", camera_id)
                 IN  IF alive
                     THEN Commit(S2, args,
                                 session_result(camera_id, port, args.capability,
                                                S2.output_paths[camera_id]),
                                 {})
                     ELSE \* 264-274, inside the try: a raise of stop_stream lands in 286-289
                          LET S3 == IF gstreamer_log = "console"
                                    THEN Ev(S2, "communicate", camera_id) ELSE S2
                          IN  \E e \in StopEnvsFor(S3, camera_id) :
                                  LET r == stop_stream([S3 EXCEPT !.answers.stop = e.http],
                                                       camera_id, e)
                                  IN
                                  IF r.ret.kind = "raise"
                                  THEN Commit(stop_stream(r.S, camera_id, DefaultEnv).S, args,
                                              [kind |-> "error",
                                               error |-> "Failed to start GStreamer: ConnectionError"],
                                              {camera_id})
                                  ELSE Commit(r.S, args,
                                              [kind |-> "error",
                                               error |-> "Failed to start GStreamer."],
                                              {camera_id})

\* client.py 202-240: output directory, output path, and where the recorder logs.
prepare_recording(S, args, port) ==
    LET camera_id == args.camera_id IN
    \E mk \in {"ok", "OSError"}, gstreamer_log \in LogOptions :
        LET S1 == Ev(S, "makedirs", camera_id) IN
        IF mk # "ok"
        THEN Commit(S1, args, Raise("OSError"), {})
        ELSE LET S2 == [S1 EXCEPT !.output_paths = DictPut(@, camera_id, OutputPath(camera_id))] IN
             CASE gstreamer_log = "file" ->
                      \E opened \in {"ok", "OSError"} :
                          IF opened # "ok"
                          THEN Commit(Ev(S2, "open_log", camera_id), args, Raise("OSError"), {})
                          ELSE launch(Ev([S2 EXCEPT !.gstreamer_log_files =
                                                        DictPut(@, camera_id, "open")],
                                         "open_log", camera_id),
                                      args, port, gstreamer_log)
               [] gstreamer_log \in {"none", "console"} -> launch(S2, args, port, gstreamer_log)
               [] OTHER -> Commit(S2, args, Raise("ValueError"), {})

\* client.py 144-289.  The gstreamer_log argument is drawn where the code first reads it.
start_stream_with_recording(camera_id, capability) ==
    LET args == StartCall(camera_id, capability)
        S0 == State   \* 163-164: a capability that is not JPEG is only warned about
    IN  IF is_tracked(S0, camera_id)
        THEN Commit(S0, args, already_streaming_result(S0, camera_id), {})
        ELSE \E get \in HttpOutcomes :
                 LET S1 == Ev([S0 EXCEPT !.answers.get = get], "GET /cameras", camera_id) IN
                 IF get # "ok"
                 THEN Commit(S1, args, Raise(get), {})
                 ELSE LET a == get_available_port(S1.active_streams)
                          S2 == Ev([S1 EXCEPT !.answers.port =
                                        IF a.exc = "" THEN <<a.port>> ELSE <<>>],
                                   "get_available_port", camera_id)
                      IN  IF a.exc # ""
                          THEN Commit(S2, args, Raise(a.exc), {})
                          ELSE \E post \in HttpOutcomes :
                                   LET S3 == start_remote([S2 EXCEPT !.answers.post = post],
                                                          camera_id, a.port, post)
                                   IN
                                   IF post # "ok"
                                   THEN Commit(S3, args, Raise(post), {})
                                   ELSE prepare_recording(S3, args, a.port)

\* client.py 450-455: the five dicts are cleared.
clear_tracking(S) ==
    [S EXCEPT !.active_streams = EmptyDict, !.camera_to_port = EmptyDict,
              !.gstreamer_processes = EmptyDict,
              !.gstreamer_log_files = EmptyDict, !.output_paths = EmptyDict]

\* client.py 441-457: stop every camera of the snapshot, swallowing what a stop raises,
\* then clear the dicts.  The stops of different cameras touch disjoint entries, so the
\* state they end in does not depend on their order.  The model keeps no insertion
\* order: the events of a cleanup are grouped by camera, the cameras by ascending id,
\* and say nothing about the order between two cameras.
\* A cleanup loop without the try/except of 445-448: what a stop raises ends the loop
\* and leaves cleanup.
RECURSIVE cleanup_loop_aborting(_, _, _)
cleanup_loop_aborting(S, camera_ids, snapshot) ==
    IF camera_ids = {}
    THEN Commit(clear_tracking(S), [op |-> "cleanup"], [kind |-> "returned"], snapshot)
    ELSE \E c \in {x \in camera_ids : \A y \in camera_ids : x <= y} :
             \E e \in StopEnvsFor(S, c) :
                 \E r \in {stop_stream(S, c, e)} :
                     IF r.ret.kind = "raise"
                     THEN Commit(r.S, [op |-> "cleanup"], r.ret, snapshot \ (camera_ids \ {c}))
                     ELSE cleanup_loop_aborting(r.S, camera_ids \ {c}, snapshot)

RECURSIVE cleanup_loop(_, _, _)
cleanup_loop(S, camera_ids, snapshot) ==
    IF camera_ids = {}
    THEN Commit(clear_tracking(S), [op |-> "cleanup"], [kind |-> "returned"], snapshot)
    ELSE \E c \in {x \in camera_ids : \A y \in camera_ids : x <= y} :
             \E e \in StopEnvsFor(S, c) :
                 \E r \in {stop_stream(S, c, e)} :
                     \* 447-448: what the stop raised is printed and dropped
                     \E S1 \in {IF r.ret.kind = "raise" THEN Ev(r.S, "swallowed", c) ELSE r.S} :
                         cleanup_loop(S1, camera_ids \ {c}, snapshot)

\* A cleanup without the _cleanup_done guard of 435-437.
cleanup_unguarded ==
    cleanup_loop([State EXCEPT !.cleanup_done = TRUE], Keys(camera_to_port),
                 Keys(camera_to_port))

\* client.py 430-457.
cleanup ==
    IF cleanup_done
    THEN Commit(State, [op |-> "cleanup"], [kind |-> "returned"], {})
    ELSE cleanup_loop([State EXCEPT !.cleanup_done = TRUE], Keys(camera_to_port),
                      Keys(camera_to_port))

----------------------------------------------------------------------------
\* client.py 16-46: the constructor sets the fields and registers its handlers; it
\* sends nothing to the server, so it returns a client whether or not the server at
\* host:port can be reached.
ThorVisionClient(reachable) == [kind |-> "client"]

Init ==
    /\ active_streams = EmptyDict
    /\ camera_to_port = EmptyDict
    /\ gstreamer_processes = EmptyDict
    /\ gstreamer_log_files = EmptyDict
    /\ output_paths = EmptyDict
    /\ cleanup_done = FALSE
    /\ os_name \in {"posix", "nt"}
    /\ orphans = FALSE
    /\ \E reachable \in BOOLEAN :
           last = [call |-> [op |-> "init", reachable |-> reachable],
                   ret |-> ThorVisionClient(reachable), events |-> <<>>,
                   answers |-> NoAnswers, retry |-> FALSE]
    /\ session = [c \in Cameras |-> NoSession]
    /\ stop_threads = EmptyDict
    /\ trace = <<>>
    /\ video = NoVideo
    /\ decoded = NotCalled
    /\ start_frame = NoFrame
    /\ remote_balance = [c \in Cameras |-> 0]

StartStream ==
    /\ last = Idle
    /\ UNCHANGED start_frame
    /\ \E camera_id \in Cameras, capability \in Capabilities :
           start_stream_with_recording(camera_id, capability)

StopStream ==
    /\ last = Idle
    /\ UNCHANGED start_frame
    /\ \E camera_id \in Cameras :
           \E e \in StopEnvsFor(State, camera_id) :
               LET r == stop_stream([State EXCEPT !.answers.stop =
                                         IF is_tracked(State, camera_id) THEN e.http ELSE "none"],
                                    camera_id, e)
               IN  Commit(r.S, StopCall(camera_id), r.ret, {camera_id})

Cleanup ==
    /\ last = Idle
    /\ UNCHANGED start_frame
    /\ cleanup

\* The caller has the result of the call.
Return ==
    /\ last # Idle
    /\ last' = Idle
    /\ UNCHANGED <<active_streams, camera_to_port, gstreamer_processes, gstreamer_log_files,
                   output_paths, cleanup_done, os_name, orphans, session, stop_threads, trace,
                   video, decoded, start_frame, remote_balance>>

\* A recorder ends by itself (end of stream, a pipeline error, a crash); when it was
\* an orphan, others may still be running.
ProcessExit ==
    /\ last = Idle
    /\ last' = Idle
    /\ \/ \E c \in DOMAIN gstreamer_processes :
             /\ gstreamer_processes[c] = "running"
             /\ gstreamer_processes' = [gstreamer_processes EXCEPT ![c] = "exited"]
             /\ UNCHANGED orphans
       \/ /\ orphans
          /\ orphans' \in BOOLEAN
          /\ UNCHANGED gstreamer_processes
    /\ UNCHANGED <<active_streams, camera_to_port, gstreamer_log_files, output_paths,
                   cleanup_done, os_name, session, stop_threads, trace, video, decoded,
                   start_frame, remote_balance>>

Next == StartStream \/ StopStream \/ Cleanup \/ Return \/ ProcessExit

Spec == Init /\ [][Next]_vars

\* The same client with a caller that may also retry at once: it answers a start that
\* failed at POST /jpeg or at the liveness probe by calling start once more, with the
\* same arguments.
RetryStart ==
    /\ last.call.op = "start"
    /\ ~last.retry
    /\ UNCHANGED start_frame
    /\ last.ret.kind \in {"raise", "error"}
    /\ last.answers.post \in {"HTTPError", "ConnectionError"} \/ last.answers.spawn = "exited"
    /\ start_stream_with_recording(last.call.camera_id, last.call.capability)

RetryNext == Next \/ RetryStart

RetrySpec == Init /\ [][RetryNext]_vars

----------------------------------------------------------------------------
\* Two threads call stop_stream on the same registered camera.  The client has no
\* lock: a thread can be preempted between any two statements of stop_stream, and
\* it gives up the interpreter while it waits on the process or on the server.

Threads == {1, 2}

\* The events of a successful start of camera_id, as start_stream_with_recording issues them.
start_events(camera_id, with_log) ==
    <<<<"GET /cameras", camera_id>>, <<"get_available_port", camera_id>>,
      <<"POST /jpeg", camera_id>>, <<"makedirs", camera_id>>>>
    \o (IF with_log THEN <<<<"open_log", camera_id>>>> ELSE <<>>)
    \o <<<<"Popen", camera_id>>, <<"poll", camera_id>>>>

\* One camera has been started on a fresh client; its recorder runs or has ended since.
ConcInit ==
    \E camera_id \in Cameras, process \in {"running", "exited"}, with_log \in BOOLEAN :
        /\ active_streams = DictPut(EmptyDict, PORT_START, camera_id)
        /\ camera_to_port = DictPut(EmptyDict, camera_id, PORT_START)
        /\ gstreamer_processes = DictPut(EmptyDict, camera_id, process)
        /\ gstreamer_log_files = IF with_log THEN DictPut(EmptyDict, camera_id, "open")
                                 ELSE EmptyDict
        /\ output_paths = DictPut(EmptyDict, camera_id, OutputPath(camera_id))
        /\ cleanup_done = FALSE
        /\ os_name \in {"posix", "nt"}
        /\ orphans = FALSE
        /\ last = Idle
        /\ session = [c \in Cameras |->
                         IF c = camera_id
                         THEN [kind |-> "session", camera_id |-> camera_id,
                               port |-> PORT_START, output_path |-> OutputPath(camera_id),
                               events |-> start_events(camera_id, with_log)]
                         ELSE NoSession]
        /\ stop_threads = [t \in Threads |->
                              [pc |-> "pop", camera_id |-> camera_id, process |-> "None",
                               log_file |-> FALSE, output_path |-> <<>>, ret |-> "none"]]
        /\ trace = <<>>
        /\ video = NoVideo
        /\ decoded = NotCalled
        /\ start_frame = NoFrame
        /\ remote_balance = [c \in Cameras |-> IF c = camera_id THEN 1 ELSE 0]

\* What a step of a thread leaves alone.
ThreadFrame == UNCHANGED <<cleanup_done, os_name, last, session, video, decoded, start_frame>>

\* client.py 302-304: the three pops into the locals.
StopPop(t) ==
    LET L == stop_threads[t]
        c == L.camera_id
    IN  /\ L.pc = "pop"
        /\ stop_threads' =
               [stop_threads EXCEPT ![t] =
                   [L EXCEPT !.pc = "terminate",
                             !.process = IF c \in DOMAIN gstreamer_processes
                                         THEN gstreamer_processes[c] ELSE "None",
                             !.log_file = c \in DOMAIN gstreamer_log_files,
                             !.output_path = IF c \in DOMAIN output_paths
                                             THEN output_paths[c] ELSE <<>>]]
        /\ gstreamer_processes' = DictPop(gstreamer_processes, c)
        /\ output_paths' = DictPop(output_paths, c)
        /\ gstreamer_log_files' = DictPop(gstreamer_log_files, c)
        /\ UNCHANGED <<active_streams, camera_to_port, orphans, trace>>
        /\ UNCHANGED remote_balance
        /\ ThreadFrame

\* client.py 306-354: the termination of the process the thread popped, and the close
\* of the log it popped.
StopTerminate(t) ==
    LET L == stop_threads[t]
        c == L.camera_id
    IN  /\ L.pc = "terminate"
        /\ \E e \in StopEnvsFor([State EXCEPT !.gstreamer_processes =
                                     IF L.process = "None" THEN @
                                     ELSE DictPut(@, c, L.process)], c) :
               LET S1 == IF L.process # "None"
                         THEN terminate_process(State, c, L.process, e) ELSE State
                   S2 == IF L.log_file THEN Ev(S1, "close_log", c) ELSE S1
               IN  /\ trace' = trace \o S2.events
                   /\ orphans' = S2.orphans
        /\ stop_threads' = [stop_threads EXCEPT ![t].pc = "check"]
        /\ UNCHANGED <<active_streams, camera_to_port, gstreamer_processes,
                       gstreamer_log_files, output_paths>>
        /\ UNCHANGED remote_balance
        /\ ThreadFrame

\* client.py 357-363: the early return when the camera is not tracked.
StopCheck(t) ==
    LET L == stop_threads[t] IN
    /\ L.pc = "check"
    /\ stop_threads' =
           [stop_threads EXCEPT ![t] =
               IF is_tracked(State, L.camera_id)
               THEN [L EXCEPT !.pc = "release"]
               ELSE [L EXCEPT !.pc = "done", !.ret = "no_active_stream"]]
    /\ UNCHANGED <<active_streams, camera_to_port, gstreamer_processes,
                   gstreamer_log_files, output_paths, orphans, trace>>
    /\ UNCHANGED remote_balance
    /\ ThreadFrame

\* client.py 366-368: camera_to_port.pop(camera_id, None), and the port it gave, if
\* any, is popped from active_streams.
StopRelease(t) ==
    LET L == stop_threads[t]
        c == L.camera_id
    IN  /\ L.pc = "release"
        /\ IF c \in DOMAIN camera_to_port
           THEN /\ camera_to_port' = DictPop(camera_to_port, c)
                /\ active_streams' = DictPop(active_streams, camera_to_port[c])
                /\ trace' = Append(trace, <<"release_port", c>>)
           ELSE UNCHANGED <<camera_to_port, active_streams, trace>>
        /\ stop_threads' = [stop_threads EXCEPT ![t].pc = "post"]
        /\ UNCHANGED <<gstreamer_processes, gstreamer_log_files, output_paths, orphans>>
        /\ UNCHANGED remote_balance
        /\ ThreadFrame

\* client.py 370-392: POST /stop and what the call returns or raises.
StopPost(t) ==
    LET L == stop_threads[t] IN
    /\ L.pc = "post"
    /\ \E http \in HttpOutcomes :
           stop_threads' =
               [stop_threads EXCEPT ![t] =
                   [L EXCEPT !.pc = "done",
                             !.ret = stop_response(http, L.camera_id, L.output_path).kind]]
    /\ trace' = Append(trace, <<"POST /stop", L.camera_id>>)
    /\ remote_balance' = [remote_balance EXCEPT ![L.camera_id] = @ - 1]
    /\ UNCHANGED <<active_streams, camera_to_port, gstreamer_processes,
                   gstreamer_log_files, output_paths, orphans>>
    /\ ThreadFrame

ConcNext ==
    \E t \in Threads :
        StopPop(t) \/ StopTerminate(t) \/ StopCheck(t) \/ StopRelease(t) \/ StopPost(t)

ConcSpec == ConcInit /\ [][ConcNext]_vars

----------------------------------------------------------------------------
\* extract_metadata (pythorvision/video.py), a function of the file at video_path.
\* A file is how av.open ends on it, whether it has a video stream, the packets
\* container.demux yields, and after how many of them demux raises, if it does.
\* An unsigned integer read from the packet is kept as its numeral in base 256,
\* most significant digit first.

MaxPackets == 2

\* video.py 79 and 81: len(raw_packet_data) < 46, raw_packet_data[6:46].
METADATA_END == 46
METADATA_OFFSET == 6

PacketSizes == {10, METADATA_END, 50}

\* The bytes of a packet: all zero; byte i (counted from 1) is i; all zero but the
\* first byte of spi_perf_counter (offset 34); all zero but the byte at offset 5.
Patterns == {"zeros", "ramp", "aux", "head"}

PacketData(size, pattern) ==
    [i \in 1..size |->
        CASE pattern = "zeros" -> 0
          [] pattern = "ramp" -> i
          [] pattern = "aux" -> IF i = 35 THEN 1 ELSE 0
          [] pattern = "head" -> IF i = METADATA_OFFSET THEN 1 ELSE 0]

PacketShapes == [has_pts : BOOLEAN, size : PacketSizes, pattern : Patterns]

\* The i-th packet of a file; its pts, when it has one, grows with its position.
Packet(i, shape) ==
    [has_pts |-> shape.has_pts,
     pts |-> IF shape.has_pts THEN 40 * (i - 1) ELSE 0,
     data |-> PacketData(shape.size, shape.pattern)]

PacketSeqs ==
    UNION {{[i \in 1..n |-> Packet(i, shapes[i])] : shapes \in [1..n -> PacketShapes]} :
           n \in 0..MaxPackets}

Videos ==
    {[open |-> "missing", has_video |-> FALSE, packets |-> <<>>, demux_error_after |-> <<>>],
     [open |-> "invalid", has_video |-> FALSE, packets |-> <<>>, demux_error_after |-> <<>>],
     [open |-> "ok", has_video |-> FALSE, packets |-> <<>>, demux_error_after |-> <<>>]}
    \cup {[open |-> "ok", has_video |-> TRUE, packets |-> packets, demux_error_after |-> d] :
             packets \in PacketSeqs, d \in {<<>>} \cup {<<k>> : k \in 0..MaxPackets}}

\* video.py 86: what av.open raises: av.error.FileNotFoundError on a missing file,
\* av.error.InvalidDataError on a file that is no container, nothing otherwise.
av_open(v) ==
    CASE v.open = "missing" -> "FileNotFoundError"
      [] v.open = "invalid" -> "InvalidDataError"
      [] OTHER -> ""

\* video.py 112: av.error.AVError is the base class of the errors av raises, its
\* FileNotFoundError included.
IsAVError(exc) == exc \in {"FileNotFoundError", "InvalidDataError"}

\* Python's data[from:to].
Slice(data, from, to) == SubSeq(data, from + 1, to)

\* A '<u8' or '<u4' field: the first byte is the least significant digit.
LittleEndian(bytes) == [i \in 1..Len(bytes) |-> bytes[Len(bytes) + 1 - i]]

\* video.py 62-75: the 40 bytes seen through RAW_RECORD_DTYPE.
RAW_RECORD_DTYPE(metadata_slice) ==
    [video_timestamp |-> LittleEndian(Slice(metadata_slice, 0, 8)),
     metadata |->
         [fpga_timestamp |-> LittleEndian(Slice(metadata_slice, 8, 16)),
          rhythm_timestamp |-> LittleEndian(Slice(metadata_slice, 16, 20)),
          ttl_in |-> LittleEndian(Slice(metadata_slice, 20, 24)),
          ttl_out |-> LittleEndian(Slice(metadata_slice, 24, 28)),
          spi_perf_counter |-> LittleEndian(Slice(metadata_slice, 28, 32)),
          reserved |-> LittleEndian(Slice(metadata_slice, 32, 40))]]

\* video.py 77-82: None (here <<>>) for a short packet, else the one raw record.
parse_packet_metadata(raw_packet_data) ==
    IF Len(raw_packet_data) < METADATA_END
    THEN <<>>
    ELSE <<RAW_RECORD_DTYPE(Slice(raw_packet_data, METADATA_OFFSET, METADATA_END))>>

NonZero(numeral) == \E i \in DOMAIN numeral : numeral[i] # 0

\* video.py 100: "if raw_record:".  None is false; a numpy structured scalar is true
\* when one of its fields, at any depth, is not zero.
truth(raw_record) ==
    /\ raw_record # <<>>
    /\ \/ NonZero(raw_record[1].video_timestamp)
       \/ \E f \in DOMAIN raw_record[1].metadata : NonZero(raw_record[1].metadata[f])

\* video.py 103-110: the tuple appended for a packet.
record_tuple(packet, raw_record) ==
    <<packet.pts, raw_record.video_timestamp, raw_record.metadata.fpga_timestamp,
      raw_record.metadata.rhythm_timestamp, raw_record.metadata.ttl_in,
      raw_record.metadata.ttl_out>>

\* video.py 27-43: frame_metadata_dtype names the elements of a tuple by position.
frame_metadata_dtype(record) ==
    [frame_pts |-> record[1], gstreamer_pts |-> record[2], xdaq_timestamp |-> record[3],
     sample_index |-> record[4], ttl_in |-> record[5], ttl_out |-> record[6]]

\* video.py 93-111: the loop over the first n packets.
RECURSIVE demux_records(_, _)
demux_records(packets, n) ==
    IF n = 0 THEN <<>>
    ELSE LET packet == packets[n]
             raw_record == parse_packet_metadata(packet.data)
             before == demux_records(packets, n - 1)
         IN  IF ~packet.has_pts THEN before
             ELSE IF truth(raw_record)
                  THEN Append(before, record_tuple(packet, raw_record[1]))
                  ELSE before

np_array(records) ==
    [kind |-> "array", records |-> [i \in DOMAIN records |-> frame_metadata_dtype(records[i])]]

\* The number of packets demux yields before it raises or ends.
Delivered(v) ==
    IF v.demux_error_after = <<>> \/ v.demux_error_after[1] >= Len(v.packets)
    THEN Len(v.packets) ELSE v.demux_error_after[1]

DemuxRaises(v) == v.demux_error_after # <<>> /\ v.demux_error_after[1] <= Len(v.packets)

\* An extract_metadata without the try/except of 85 and 112: what av raises leaves it.
extract_metadata_uncaught(v) ==
    IF av_open(v) # "" THEN Raise(av_open(v))
    ELSE IF ~v.has_video THEN np_array(<<>>)
    ELSE IF DemuxRaises(v) THEN Raise("InvalidDataError")
    ELSE np_array(demux_records(v.packets, Delivered(v)))

\* video.py 84-115.
extract_metadata(v) ==
    IF av_open(v) # ""
    THEN IF IsAVError(av_open(v)) THEN np_array(<<>>) ELSE Raise(av_open(v))
    ELSE IF ~v.has_video
         THEN np_array(<<>>)
         ELSE \* an error of demux ends the loop; 112 catches it and 115 returns the
              \* records appended so far
              np_array(demux_records(v.packets, Delivered(v)))

\* A fresh client, and a file to decode.
DecodeInit ==
    /\ active_streams = EmptyDict
    /\ camera_to_port = EmptyDict
    /\ gstreamer_processes = EmptyDict
    /\ gstreamer_log_files = EmptyDict
    /\ output_paths = EmptyDict
    /\ cleanup_done = FALSE
    /\ os_name \in {"posix", "nt"}
    /\ orphans = FALSE
    /\ last = Idle
    /\ session = [c \in Cameras |-> NoSession]
    /\ stop_threads = EmptyDict
    /\ trace = <<>>
    /\ video \in Videos
    /\ decoded = NotCalled
    /\ start_frame = NoFrame
    /\ remote_balance = [c \in Cameras |-> 0]

ExtractMetadata ==
    /\ decoded = NotCalled
    /\ decoded' = extract_metadata(video)
    /\ UNCHANGED <<active_streams, camera_to_port, gstreamer_processes, gstreamer_log_files,
                   output_paths, cleanup_done, os_name, orphans, last, session,
                   stop_threads, trace, video, start_frame, remote_balance>>

DecodeNext == ExtractMetadata

DecodeSpec == DecodeInit /\ [][DecodeNext]_vars

----------------------------------------------------------------------------
\* One start_stream_with_recording on a fresh client, followed statement by statement,
\* with a SIGTERM (or SIGHUP) that arrives while it runs: Python runs _signal_handler
\* between two statements of the interrupted call, which then goes on.  After the
\* start has returned the program ends and atexit runs cleanup.

InFlight == {"called", "posted", "tracked", "prepared", "spawned", "registered"}

SignalInit ==
    /\ active_streams = EmptyDict
    /\ camera_to_port = EmptyDict
    /\ gstreamer_processes = EmptyDict
    /\ gstreamer_log_files = EmptyDict
    /\ output_paths = EmptyDict
    /\ cleanup_done = FALSE
    /\ os_name \in {"posix", "nt"}
    /\ orphans = FALSE
    /\ last = Idle
    /\ session = [c \in Cameras |-> NoSession]
    /\ stop_threads = EmptyDict
    /\ trace = <<>>
    /\ video = NoVideo
    /\ decoded = NotCalled
    /\ remote_balance = [c \in Cameras |-> 0]
    /\ \E camera_id \in Cameras, capability \in Capabilities, gstreamer_log \in LogOptions :
           start_frame = [pc |-> "called", camera_id |-> camera_id,
                          capability |-> capability, gstreamer_log |-> gstreamer_log,
                          port |-> <<>>, signalled |-> FALSE, ret |-> [kind |-> "none"]]

\* The fields after a statement of the start, and where the start is then.
Store(S, frame) ==
    /\ active_streams' = S.active_streams
    /\ camera_to_port' = S.camera_to_port
    /\ gstreamer_processes' = S.gstreamer_processes
    /\ gstreamer_log_files' = S.gstreamer_log_files
    /\ output_paths' = S.output_paths
    /\ cleanup_done' = S.cleanup_done
    /\ orphans' = S.orphans
    /\ start_frame' = frame
    /\ remote_balance' = RemoteBalance(S)
    /\ UNCHANGED <<os_name, last, session, stop_threads, trace, video, decoded>>

\* The start leaves with ret (a returned dict or a raised exception).
Leave(S, ret) == Store(S, [start_frame EXCEPT !.pc = "returned", !.ret = ret])

\* client.py 167-193: the already-streaming test, GET /cameras, get_available_port
\* and POST /jpeg with raise_for_status.
StartRequest ==
    /\ start_frame.pc = "called"
    /\ IF is_tracked(State, start_frame.camera_id)
       THEN Leave(State, already_streaming_result(State, start_frame.camera_id))
       ELSE \E get \in HttpOutcomes :
                IF get # "ok"
                THEN Leave(State, Raise(get))
                ELSE LET a == get_available_port(active_streams) IN
                     IF a.exc # ""
                     THEN Leave(State, Raise(a.exc))
                     ELSE \E post \in HttpOutcomes :
                              IF post # "ok"
                              THEN Leave(State, Raise(post))
                              ELSE Store(Ev([State EXCEPT !.answers.post = post],
                                            "POST /jpeg", start_frame.camera_id),
                                         [start_frame EXCEPT !.pc = "posted",
                                                             !.port = <<a.port>>])

\* client.py 196-197: the two tracking dicts.
StartTrack ==
    /\ start_frame.pc = "posted"
    /\ Store([State EXCEPT !.active_streams =
                               DictPut(@, start_frame.port[1], start_frame.camera_id),
                           !.camera_to_port =
                               DictPut(@, start_frame.camera_id, start_frame.port[1])],
             [start_frame EXCEPT !.pc = "tracked"])

\* client.py 203-240: output directory, output path, and where the recorder logs.
StartPrepare ==
    /\ start_frame.pc = "tracked"
    /\ LET camera_id == start_frame.camera_id IN
       \E mk \in {"ok", "OSError"} :
           IF mk # "ok"
           THEN Leave(State, Raise("OSError"))
           ELSE LET S1 == [State EXCEPT !.output_paths =
                                            DictPut(@, camera_id, OutputPath(camera_id))]
                IN  CASE start_frame.gstreamer_log = "file" ->
                             \E opened \in {"ok", "OSError"} :
                                 IF opened # "ok"
                                 THEN Leave(S1, Raise("OSError"))
                                 ELSE Store([S1 EXCEPT !.gstreamer_log_files =
                                                           DictPut(@, camera_id, "open")],
                                            [start_frame EXCEPT !.pc = "prepared"])
                      [] start_frame.gstreamer_log \in {"none", "console"} ->
                             Store(S1, [start_frame EXCEPT !.pc = "prepared"])
                      [] OTHER -> Leave(S1, Raise("ValueError"))

\* client.py 243-257: Popen; when it raises, the except block of 286-289.
StartPopen ==
    /\ start_frame.pc = "prepared"
    /\ \E popen \in {"ok", "OSError"} :
           IF popen = "ok"
           THEN Store(State, [start_frame EXCEPT !.pc = "spawned"])
           ELSE \E e \in StopEnvsFor(State, start_frame.camera_id) :
                    LET r == stop_stream(State, start_frame.camera_id, e) IN
                    Leave(r.S, IF r.ret.kind = "raise" THEN r.ret
                               ELSE [kind |-> "error",
                                     error |-> "Failed to start GStreamer: OSError"])

\* client.py 258: the process that runs since 243 is put into gstreamer_processes.
StartRegister ==
    /\ start_frame.pc = "spawned"
    /\ Store([State EXCEPT !.gstreamer_processes =
                               DictPut(@, start_frame.camera_id, "running")],
             [start_frame EXCEPT !.pc = "registered"])

\* client.py 261-289: the second of grace, the poll of the local process, and the
\* result.  A process that a cleanup of the handler has stopped in between is no key
\* of gstreamer_processes any more; it runs only if it outlived that cleanup.
StartProbe ==
    /\ start_frame.pc = "registered"
    /\ LET camera_id == start_frame.camera_id
           tracked == camera_id \in DOMAIN gstreamer_processes
       IN  \E alive \in (IF tracked THEN BOOLEAN ELSE {orphans}) :
               IF alive
               THEN Leave(State, session_result(camera_id, start_frame.port[1],
                                                start_frame.capability,
                                                OutputPath(camera_id)))
               ELSE LET S1 == IF tracked
                              THEN [State EXCEPT !.gstreamer_processes[camera_id] = "exited"]
                              ELSE State
                    IN  \E e \in StopEnvsFor(S1, camera_id) :
                            LET r == stop_stream(S1, camera_id, e) IN
                            IF r.ret.kind = "raise"
                            THEN Leave(stop_stream(r.S, camera_id, DefaultEnv).S,
                                       [kind |-> "error",
                                        error |-> "Failed to start GStreamer: ConnectionError"])
                            ELSE Leave(r.S, [kind |-> "error",
                                             error |-> "Failed to start GStreamer."])

\* client.py 48-52: the handler of SIGTERM runs cleanup and returns to the start.
Signal ==
    /\ start_frame.pc \in InFlight
    /\ ~start_frame.signalled
    /\ cleanup
    /\ start_frame' = [start_frame EXCEPT !.signalled = TRUE]

\* client.py 34: the cleanup registered with atexit, after the start has returned.
AtExit ==
    /\ start_frame.pc = "returned"
    /\ cleanup
    /\ start_frame' = [start_frame EXCEPT !.pc = "exited"]

SignalNext ==
    \/ StartRequest \/ StartTrack \/ StartPrepare \/ StartPopen \/ StartRegister
    \/ StartProbe \/ Signal \/ AtExit

SignalSpec == SignalInit /\ [][SignalNext]_vars

----------------------------------------------------------------------------
\* The properties of the session manager, one per claim.

HttpFailures == {"HTTPError", "ConnectionError"}

\* The camera holds no port: it is no key of camera_to_port and no value of active_streams.
Released(camera_id) ==
    /\ camera_id \notin DOMAIN camera_to_port
    /\ \A p \in DOMAIN active_streams : active_streams[p] # camera_id

\* C1: a start on a camera whose last start succeeded and that was not stopped since
\* allocates no second port, issues no second POST /jpeg, spawns no second recorder
\* (one of each over both calls), and returns the Session the first call returned.
C1_IdempotentStart ==
    [][\A c \in Cameras :
          (/\ last = Idle
           /\ session[c].kind = "session"
           /\ last'.call.op = "start"
           /\ last'.call.camera_id = c)
          => /\ Count(session[c].events \o last'.events, "get_available_port") = 1
             /\ Count(session[c].events \o last'.events, "POST /jpeg") = 1
             /\ Count(session[c].events \o last'.events, "Popen") = 1
             /\ last'.ret.kind = "session"
             /\ last'.ret.camera_id = session[c].camera_id
             /\ last'.ret.port = session[c].port
             /\ last'.ret.output_path = session[c].output_path]_vars

\* C2: at every moment no camera is registered under two ports, no two registered
\* cameras hold the same port, and the two tracking dicts are each other's inverse.
C2_OneSessionPerCameraInjectivePorts ==
    /\ \A c1, c2 \in DOMAIN camera_to_port :
           c1 # c2 => camera_to_port[c1] # camera_to_port[c2]
    /\ \A p, q \in DOMAIN active_streams :
           p # q => active_streams[p] # active_streams[q]
    /\ \A c \in DOMAIN camera_to_port :
           /\ camera_to_port[c] \in DOMAIN active_streams
           /\ active_streams[camera_to_port[c]] = c
    /\ \A p \in DOMAIN active_streams :
           /\ active_streams[p] \in DOMAIN camera_to_port
           /\ camera_to_port[active_streams[p]] = p

\* C2's case: two cameras are registered at once, one of them on a port that is not
\* the first of the range.
C2_Witness ==
    /\ Cardinality(DOMAIN camera_to_port) = 2
    /\ \E c \in DOMAIN camera_to_port : camera_to_port[c] # PORT_START

\* C3: when a cleanup call has returned, whatever calls came before it, the registry
\* is empty, no port is held and no recorder that was ever spawned is running.
C3_CleanupLeavesNothing ==
    last.call.op = "cleanup"
    => /\ DOMAIN camera_to_port = {}
       /\ DOMAIN active_streams = {}
       /\ DOMAIN gstreamer_processes = {}
       /\ ~orphans

\* C4: a stop of a camera that is not registered returns the "no active stream"
\* result, issues no request and no process operation, and changes no dict.
C4_StopUnregisteredIsNoOp ==
    [][(/\ last = Idle
        /\ last'.call.op = "stop"
        /\ last'.call.camera_id \notin DOMAIN camera_to_port)
       => /\ last'.ret.kind = "no_active_stream"
          /\ last'.events = <<>>
          /\ active_streams' = active_streams
          /\ camera_to_port' = camera_to_port
          /\ gstreamer_processes' = gstreamer_processes
          /\ gstreamer_log_files' = gstreamer_log_files
          /\ output_paths' = output_paths]_vars

\* C4's case: such a stop has returned while another camera is registered.
C4_Witness ==
    /\ last.call.op = "stop"
    /\ last.ret.kind = "no_active_stream"
    /\ DOMAIN camera_to_port # {}
    /\ DOMAIN gstreamer_processes # {}

\* C5: when the recorder failed to spawn or had exited at the probe, the start returns
\* no Session: it has issued POST /stop for the camera, the camera holds no port and
\* is not registered, and the caller gets the launch error.
C5_LaunchFailureCompensation ==
    (/\ last.call.op = "start"
     /\ last.answers.spawn \in {"raised", "exited"})
    => /\ last.ret.kind = "error"
       /\ CountFor(last.events, "POST /stop", last.call.camera_id) >= 1
       /\ Released(last.call.camera_id)
       /\ last.call.camera_id \notin DOMAIN gstreamer_processes

\* C6: when the POST /stop of the compensation fails, with an error status or with a
\* connection failure, the start still returns the launch error, not the failure of
\* the stop, and the camera holds no port.
C6_CompensationStopFailureNotPropagated ==
    (/\ last.call.op = "start"
     /\ last.answers.spawn \in {"raised", "exited"}
     /\ last.answers.stop \in HttpFailures)
    => /\ last.ret.kind = "error"
       /\ last.ret.error \in {"Failed to start GStreamer.",
                              "Failed to start GStreamer: OSError"}
       /\ Released(last.call.camera_id)

\* C7: when POST /jpeg fails, the start raises that error, spawns no recorder, and the
\* tracking dicts (the registry and the ports held) are what they were before the call.
C7_RemoteStartFailureLeavesNothing ==
    [][(/\ last = Idle
        /\ last'.call.op = "start"
        /\ last'.answers.post \in HttpFailures)
       => /\ last'.ret = Raise(last'.answers.post)
          /\ Count(last'.events, "Popen") = 0
          /\ active_streams' = active_streams
          /\ camera_to_port' = camera_to_port
          /\ gstreamer_processes' = gstreamer_processes
          /\ last'.call.camera_id \notin DOMAIN camera_to_port']_vars

\* C7's case: a start has raised the failure of its POST /jpeg while another camera
\* is registered.
C7_Witness ==
    /\ last.call.op = "start"
    /\ last.answers.post \in HttpFailures
    /\ last.ret.kind = "raise"
    /\ DOMAIN camera_to_port # {}

\* C8: when the POST /stop of a stop of a registered camera fails, the stop returns
\* the partial-success result and raises nothing; the recorder has been terminated,
\* the port released and the camera removed from the registry.
C8_RemoteStopFailureIsPartialSuccess ==
    (/\ last.call.op = "stop"
     /\ last.answers.stop \in HttpFailures)
    => /\ last.ret.kind = "stopped_server_error"
       /\ Released(last.call.camera_id)
       /\ last.call.camera_id \notin DOMAIN gstreamer_processes
       /\ CountFor(last.events, "TimeoutExpired", last.call.camera_id) = 0

\* C9: a start with a capability that is not image/jpeg fails with a validation error
\* and does nothing: no request, no port allocated, no recorder, no registration.
C9_NonJpegCapabilityRejected ==
    (/\ last.call.op = "start"
     /\ ~IsJpeg(last.call.capability))
    => /\ last.ret = Raise("ValidationError")
       /\ last.events = <<>>
       /\ Released(last.call.camera_id)

\* C10: with every port of the range held by a camera whose start succeeded, a start
\* on one more camera raises the resource-exhausted error (RuntimeError), spawns no
\* recorder, and leaves the registry and the ports held as they were.
C10_PortExhaustion ==
    [][(/\ last = Idle
        /\ DOMAIN active_streams = Ports
        /\ \A c \in DOMAIN camera_to_port : session[c].kind = "session"
        /\ last'.call.op = "start"
        /\ last'.call.camera_id \notin DOMAIN camera_to_port)
       => /\ last'.ret = Raise("RuntimeError")
          /\ Count(last'.events, "Popen") = 0
          /\ active_streams' = active_streams
          /\ camera_to_port' = camera_to_port]_vars

\* The HTTP requests a call issued to the server.
HttpRequests(events) ==
    Count(events, "GET /cameras") + Count(events, "POST /jpeg") + Count(events, "POST /stop")

\* C11: a start that fails because no port is free (RuntimeError) has issued no
\* HTTP request to the server.
C11_ExhaustionBeforeAnyRemoteCall ==
    (/\ last.call.op = "start"
     /\ last.ret = Raise("RuntimeError"))
    => HttpRequests(last.events) = 0

\* The ports of the registered Sessions.
SessionPorts == {camera_to_port[c] : c \in DOMAIN camera_to_port}

\* The lowest port of the range that no registered Session holds.
IsLowestFree(port) ==
    /\ port \in Ports \ SessionPorts
    /\ \A q \in Ports \ SessionPorts : port <= q

\* C12: the port a start registers its camera on, and the port of the Session it
\* returns, is the lowest port of the range that no Session registered before the
\* call holds (PORT_START on an empty registry, a released port when it is the lowest).
C12_LowestFreePort ==
    [][(/\ last = Idle
        /\ last'.call.op = "start"
        /\ last'.call.camera_id \notin DOMAIN camera_to_port)
       => /\ last'.call.camera_id \in DOMAIN camera_to_port'
             => IsLowestFree(camera_to_port'[last'.call.camera_id])
          /\ last'.ret.kind = "session" => IsLowestFree(last'.ret.port)
          /\ (last'.ret.kind = "session" /\ DOMAIN camera_to_port = {})
             => last'.ret.port = PORT_START]_vars

\* C12's case: a start has returned a Session on the first port of the range while
\* another Session holds a higher port, so the first port was released and given again.
C12_Witness ==
    /\ last.call.op = "start"
    /\ last.ret.kind = "session"
    /\ last.ret.port = PORT_START
    /\ \E c \in DOMAIN camera_to_port : camera_to_port[c] > PORT_START

\* C13: between any two calls the ports held (the keys of active_streams) are exactly
\* the ports of the registered Sessions (the values of camera_to_port).
C13_HeldPortsAreSessionPorts ==
    DOMAIN active_streams = SessionPorts

\* C13's case: after starts and a stop, a port other than the first is the only one
\* held, by the one Session still registered.
C13_Witness ==
    /\ last = Idle
    /\ DOMAIN active_streams = {PORT_START + 1}
    /\ Cardinality(DOMAIN camera_to_port) = 1

\* C14: a stop whose recorder was still alive when the wait after the forced kill
\* timed out has not destroyed the Session: the camera is still registered, its port
\* still held and its process still tracked.
C14_SessionKeptUntilProcessTerminated ==
    (/\ last.call.op = "stop"
     /\ CountFor(last.events, "TimeoutExpired", last.call.camera_id) >= 1)
    => /\ last.call.camera_id \in DOMAIN camera_to_port
       /\ camera_to_port[last.call.camera_id] \in DOMAIN active_streams
       /\ last.call.camera_id \in DOMAIN gstreamer_processes

\* The forced terminations of a process: process.kill() and taskkill /F.
ForcedKills == {"kill", "taskkill"}

\* The termination events of a stop of a live process follow the escalation: the probe,
\* the graceful interrupt, the wait of the grace timeout, and then either the process
\* has exited or it is force-killed and waited on for the kill timeout; no forced kill
\* comes before the grace timeout has been waited.
Escalates(events, camera_id) ==
    /\ Len(events) >= 4
    /\ events[1] = <<"poll", camera_id>>
    /\ events[2] = <<"SIGINT", camera_id>>
    /\ events[3] = <<"wait5", camera_id>>
    /\ \/ events[4] = <<"communicate", camera_id>>
       \/ /\ Len(events) >= 5
          /\ events[4] = <<"kill", camera_id>>
          /\ events[5] = <<"wait2", camera_id>>
    /\ \A i \in DOMAIN events : events[i][1] \in ForcedKills => i = 4

\* C15: a stop of a camera whose recorder is alive sends the graceful interrupt first
\* and waits the grace timeout; only a process still alive after it is force-killed,
\* always, and then waited on for the kill timeout.
C15_TerminationEscalation ==
    [][(/\ last = Idle
        /\ last'.call.op = "stop"
        /\ last'.call.camera_id \in DOMAIN gstreamer_processes
        /\ gstreamer_processes[last'.call.camera_id] = "running")
       => Escalates(last'.events, last'.call.camera_id)]_vars

\* C16: a stop of a camera that owns a log handle has closed the handle, once, when it
\* returns or raises, whatever way the termination went; and no call drops a log
\* handle from the client without closing it.
C16_LogHandleClosed ==
    [][/\ (/\ last = Idle
           /\ last'.call.op = "stop"
           /\ last'.call.camera_id \in DOMAIN gstreamer_log_files)
          => /\ CountFor(last'.events, "close_log", last'.call.camera_id) = 1
             /\ last'.call.camera_id \notin DOMAIN gstreamer_log_files'
       /\ \A c \in DOMAIN gstreamer_log_files :
              c \notin DOMAIN gstreamer_log_files'
              => CountFor(last'.events, "close_log", c) = 1]_vars

\* C16's case: a stop of a camera with a log handle went through the forced kill, the
\* wait after it timed out, and the stop then raised the failure of POST /stop; the
\* handle was closed.
C16_Witness ==
    /\ last.call.op = "stop"
    /\ last.ret.kind = "raise"
    /\ CountFor(last.events, "TimeoutExpired", last.call.camera_id) = 1
    /\ CountFor(last.events, "close_log", last.call.camera_id) = 1

\* C17: a cleanup called after an earlier cleanup does nothing: it issues no request
\* and no process operation and changes no field of the client.
C17_CleanupIdempotent ==
    [][(/\ last = Idle
        /\ cleanup_done
        /\ last'.call.op = "cleanup")
       => /\ last'.events = <<>>
          /\ last'.ret.kind = "returned"
          /\ UNCHANGED <<active_streams, camera_to_port, gstreamer_processes,
                         gstreamer_log_files, output_paths, cleanup_done, orphans>>]_vars

\* C17's case: a cleanup has returned and a camera is registered with a recorder: the
\* cleanup came after an earlier cleanup and a start, and left them alone.
C17_Witness ==
    /\ last.call.op = "cleanup"
    /\ DOMAIN camera_to_port # {}
    /\ DOMAIN gstreamer_processes # {}

\* C18: a first cleanup returns without raising after a stop of every camera that was
\* registered when it was called: each of them has had its POST /stop issued, also
\* those that come after a camera whose stop raised, and none is registered afterwards.
C18_CleanupStopsEveryCamera ==
    [][(/\ last = Idle
        /\ ~cleanup_done
        /\ last'.call.op = "cleanup")
       => /\ last'.ret.kind = "returned"
          /\ \A c \in DOMAIN camera_to_port :
                 /\ CountFor(last'.events, "POST /stop", c) = 1
                 /\ c \in DOMAIN gstreamer_processes
                    => CountFor(last'.events, "poll", c) >= 1
                 /\ c \notin DOMAIN camera_to_port'
                 /\ c \notin DOMAIN gstreamer_processes'
          /\ Count(last'.events, "swallowed") <= Cardinality(DOMAIN camera_to_port)]_vars

\* C18's case: in a cleanup that has returned, the stop of one camera raised and was
\* swallowed, and the stop of another camera was issued after it.
C18_Witness ==
    /\ last.call.op = "cleanup"
    /\ last.ret.kind = "returned"
    /\ \E i, j \in DOMAIN last.events :
           /\ i < j
           /\ last.events[i][1] = "swallowed"
           /\ last.events[j][1] = "POST /stop"
           /\ last.events[j][2] # last.events[i][2]

\* The terminations of a camera's recorder in a sequence of events: each one ends with
\* communicate() or with the TimeoutExpired of the wait after the kill.
Terminations(events, camera_id) ==
    CountFor(events, "communicate", camera_id) + CountFor(events, "TimeoutExpired", camera_id)

\* C19: over two concurrent stop_stream calls on the same registered camera the
\* recorder is terminated at most once, POST /stop is issued at most once and the
\* port is released at most once.
C19_ConcurrentStopsProcessOnce ==
    \A c \in Cameras :
        /\ Terminations(trace, c) <= 1
        /\ CountFor(trace, "POST /stop", c) <= 1
        /\ CountFor(trace, "release_port", c) <= 1

\* C20: constructing the client while the server cannot be reached fails with a
\* connectivity error, and no client with session state comes out of it.
C20_UnreachableServerFailsConstruction ==
    (/\ last.call.op = "init"
     /\ ~last.call.reachable)
    => /\ last.ret = Raise("ConnectionError")
       /\ DOMAIN camera_to_port = {}
       /\ DOMAIN active_streams = {}

\* A packet with a presentation timestamp and at least 46 bytes.
HasMetadata(packet) == packet.has_pts /\ Len(packet.data) >= METADATA_END

\* C21: for a file that demuxes to its end, extract_metadata returns one record for
\* every packet that has a pts and at least 46 bytes, none for any other packet, in
\* demux order, each with its packet's pts as frame_pts, whatever the bytes are.
C21_OneRecordPerMetadataPacket ==
    (/\ decoded.kind # "not_called"
     /\ video.open = "ok"
     /\ video.has_video
     /\ ~DemuxRaises(video))
    => /\ decoded.kind = "array"
       /\ [i \in DOMAIN decoded.records |-> decoded.records[i].frame_pts]
          = [i \in DOMAIN SelectSeq(video.packets, HasMetadata) |->
                SelectSeq(video.packets, HasMetadata)[i].pts]

\* C22: extract_metadata on a path where no file exists raises a not-found error
\* instead of returning a result, and on a file that opens without a video stream it
\* returns an empty array.
C22_MissingFileIsNotFound ==
    decoded.kind # "not_called"
    => /\ video.open = "missing" => decoded.kind = "raise"
       /\ (video.open = "ok" /\ ~video.has_video) => decoded = np_array(<<>>)

\* The record the layout of the claim gives for a packet: bytes 6..13, 14..21, 22..25,
\* 26..29 and 30..33 of the packet, least significant byte first.
RecordAtOffsets(packet) ==
    [frame_pts |-> packet.pts,
     gstreamer_pts |-> LittleEndian(SubSeq(packet.data, 7, 14)),
     xdaq_timestamp |-> LittleEndian(SubSeq(packet.data, 15, 22)),
     sample_index |-> LittleEndian(SubSeq(packet.data, 23, 26)),
     ttl_in |-> LittleEndian(SubSeq(packet.data, 27, 30)),
     ttl_out |-> LittleEndian(SubSeq(packet.data, 31, 34))]

\* The file with the bytes of its i-th packet replaced, the size kept.
WithPattern(v, i, pattern) ==
    [v EXCEPT !.packets[i].data = PacketData(Len(v.packets[i].data), pattern)]

\* C23: every record extract_metadata returns is the record read at the fixed offsets
\* of a demuxed packet, and a change of a byte at offset 34 (auxiliary counter) or at
\* offset 5 (before the layout) of a packet changes nothing in the result.
C23_FixedLittleEndianLayout ==
    (decoded.kind = "array" /\ video.open = "ok" /\ video.has_video)
    => /\ \A k \in DOMAIN decoded.records :
            \E i \in 1..Delivered(video) :
                /\ HasMetadata(video.packets[i])
                /\ decoded.records[k] = RecordAtOffsets(video.packets[i])
       /\ \A i \in DOMAIN video.packets :
            video.packets[i].data = PacketData(Len(video.packets[i].data), "zeros")
            => /\ extract_metadata(WithPattern(video, i, "aux")) = decoded
               /\ extract_metadata(WithPattern(video, i, "head")) = decoded

\* A packet for which the loop of extract_metadata appends a record.
YieldsRecord(packet) ==
    HasMetadata(packet) /\ \E k \in (METADATA_OFFSET + 1)..METADATA_END : packet.data[k] # 0

Precedes(events, a, b) ==
    \A j \in DOMAIN events :
        events[j][1] = b => \E i \in 1..(j - 1) : events[i][1] = a

\* C24: in a start call the port is allocated before POST /jpeg, the recorder is
\* spawned only after POST /jpeg succeeded, and the camera is registered by the call
\* only when its recorder has passed the liveness probe.
C24_StartOrdering ==
    (last.call.op = "start" /\ last.ret.kind # "already_streaming")
    => /\ Precedes(last.events, "get_available_port", "POST /jpeg")
       /\ Precedes(last.events, "POST /jpeg", "Popen")
       /\ Count(last.events, "Popen") > 0 => last.answers.post = "ok"
       /\ last.call.camera_id \in DOMAIN camera_to_port => last.answers.spawn = "alive"

\* What stop_stream does to stop the recorder of a camera.
TerminationSteps ==
    {"poll", "SIGINT", "taskkill", "wait5", "kill", "wait2", "communicate", "TimeoutExpired"}

\* C25: a stop_stream of a registered camera issues POST /stop exactly once, after
\* every step of the termination of the recorder, also when the termination ended
\* with an error (the recorder outlived the kill).
C25_StopOrdering ==
    [][(/\ last = Idle
        /\ last'.call.op = "stop"
        /\ last'.call.camera_id \in DOMAIN camera_to_port)
       => /\ CountFor(last'.events, "POST /stop", last'.call.camera_id) = 1
          /\ \A i \in DOMAIN last'.events :
                last'.events[i][1] \in TerminationSteps
                => \E j \in (i + 1)..Len(last'.events) :
                      last'.events[j] = <<"POST /stop", last'.call.camera_id>>]_vars

\* A stop whose termination timed out after the kill, and POST /stop after it.
C25_Witness ==
    /\ last.call.op = "stop"
    /\ CountFor(last.events, "TimeoutExpired", last.call.camera_id) = 1
    /\ last.events[Len(last.events)] = <<"POST /stop", last.call.camera_id>>

\* The camera is registered with a port, a recorder process and an output path.
FullyRegistered(camera_id) ==
    /\ camera_id \in DOMAIN camera_to_port
    /\ camera_to_port[camera_id] \in DOMAIN active_streams
    /\ active_streams[camera_to_port[camera_id]] = camera_id
    /\ camera_id \in DOMAIN gstreamer_processes
    /\ camera_id \in DOMAIN output_paths

\* C27: when a start call has returned or raised, the camera is either registered
\* with a port, a recorder process and an output path, or it holds no port and a
\* POST /jpeg that succeeded in the call was followed by a POST /stop.
C27_StartAllOrNothing ==
    (last.call.op = "start" /\ last.ret.kind # "already_streaming")
    => \/ FullyRegistered(last.call.camera_id)
       \/ /\ Released(last.call.camera_id)
          /\ last.answers.post = "ok"
             => CountFor(last.events, "POST /stop", last.call.camera_id) >= 1

\* C29: every key of gstreamer_processes, gstreamer_log_files and output_paths is a
\* key of camera_to_port, and a stop of a camera that is not registered performs no
\* step of a termination.
C29_TrackedResourcesBelongToRegisteredCameras ==
    /\ DOMAIN gstreamer_processes \subseteq DOMAIN camera_to_port
    /\ DOMAIN gstreamer_log_files \subseteq DOMAIN camera_to_port
    /\ DOMAIN output_paths \subseteq DOMAIN camera_to_port
    /\ (last.call.op = "stop" /\ last.ret.kind = "no_active_stream")
       => \A i \in DOMAIN last.events : last.events[i][1] \notin TerminationSteps

\* A camera was stopped while another one keeps its process, log handle and path.
C29_Witness ==
    /\ last.call.op = "stop"
    /\ last.ret.kind = "stopped"
    /\ \E c \in DOMAIN camera_to_port :
          /\ c \in DOMAIN gstreamer_processes
          /\ c \in DOMAIN gstreamer_log_files
          /\ c \in DOMAIN output_paths

\* The start recorded in l failed at POST /jpeg or at the liveness probe of the recorder.
FailedRemoteOrProbe(l) ==
    /\ l.call.op = "start"
    /\ l.ret.kind \in {"raise", "error"}
    /\ l.answers.post \in HttpFailures \/ l.answers.spawn = "exited"

C28_SignalDuringStartLeavesNothing ==
    (start_frame.pc = "exited" /\ start_frame.signalled)
    => /\ camera_to_port = EmptyDict
       /\ active_streams = EmptyDict
       /\ \A c \in DOMAIN gstreamer_processes : gstreamer_processes[c] # "running"
       /\ ~orphans

\* C31: for every camera, after any sequence of start, stop and cleanup calls, the
\* POST /stop issued for it are never more than the POST /jpeg that succeeded for it,
\* and they are as many once the camera is not registered.
C31_RemoteStartStopPairing ==
    \A c \in Cameras :
        /\ remote_balance[c] >= 0
        /\ c \notin DOMAIN camera_to_port => remote_balance[c] = 0

\* A stop has sent POST /stop for a camera that was started, while another camera is
\* still registered with its remote stream started.
C31_Witness ==
    /\ last.call.op = "stop"
    /\ CountFor(last.events, "POST /stop", last.call.camera_id) = 1
    /\ last.call.camera_id \notin DOMAIN camera_to_port
    /\ remote_balance[last.call.camera_id] = 0
    /\ \E c \in DOMAIN camera_to_port : remote_balance[c] = 1

====
